---- MODULE Spec2Model ----
(***************************************************************************)
(* Astock: date-anchored price lookup (basic query) and monthly buy/sell   *)
(* backtest, in its three variants app.py, engine_cn.py and engine_jp.py.  *)
(*                                                                         *)
(* Dates are proleptic Gregorian ordinals (datetime.toordinal); every      *)
(* timestamp of a daily series and every datetime.datetime(y, m, d) is at  *)
(* midnight, so a difference of timestamps is a whole number of days.      *)
(* Prices are closing prices in hundredths.                                *)
(***************************************************************************)
EXTENDS Integers, Sequences, FiniteSets, TLC

VARIABLES
    variant,      \* "app" | "cn" | "jp": which file runs
    tab,          \* "tab1" basic query | "tab2" backtest | "resolve" | "calendar"
    pc,           \* "start" | "loop" | "finish" | "done"
    t_year,       \* t1_year / t2_year
    mode,         \* tab1: "A" | "B"
    buy_rule,     \* tab2: "futures" | "option" | "last"
    sell_rule,    \* tab2: "first" | "mid"
    today,        \* datetime.now(), as the ordinal of its calendar day
    df,           \* the fetched frame: None, or a sequence of rows
    m,            \* the loop's month, 1..12 (13: loop over)
    target_list,  \* tab1's rows
    trades,       \* tab2's ledger
    outcome,      \* what the page shows at the end
    metrics,      \* tab2's aggregates, when computed
    arg,          \* input of a pure function under SpecResolver / SpecCalendar
    ret           \* its result

vars == <<variant, tab, pc, t_year, mode, buy_rule, sell_rule, today, df, m,
          target_list, trades, outcome, metrics, arg, ret>>

(***************************************************************************)
(* Python's None.  A date ordinal is >= 1 and a price is >= 0.             *)
(***************************************************************************)
NoDate == 0
NoPrice == -1
\* "df is None": a frame that is no frame, told apart by its row label
NoFrame == <<[idx |-> -1, date |-> 0, close |-> -1]>>

Abs(x) == IF x < 0 THEN -x ELSE x

(***************************************************************************)
(* Python's calendar / datetime arithmetic.                                *)
(***************************************************************************)
isleap(y) == (y % 4 = 0) /\ ((y % 100 # 0) \/ (y % 400 = 0))

DaysInMonth(y, mo) ==
    IF mo = 2 THEN (IF isleap(y) THEN 29 ELSE 28)
    ELSE IF mo \in {4, 6, 9, 11} THEN 30 ELSE 31

DaysBeforeYear(y) ==
    (y - 1) * 365 + ((y - 1) \div 4) - ((y - 1) \div 100) + ((y - 1) \div 400)

RECURSIVE DaysBeforeMonth(_, _)
DaysBeforeMonth(y, mo) ==
    IF mo <= 1 THEN 0 ELSE DaysBeforeMonth(y, mo - 1) + DaysInMonth(y, mo - 1)

\* datetime.datetime(y, mo, d), as an ordinal
Date(y, mo, d) == DaysBeforeYear(y) + DaysBeforeMonth(y, mo) + d

\* datetime.weekday(): Monday = 0 .. Sunday = 6
WeekdayOf(n) == (n + 6) % 7

\* calendar.monthrange(y, mo): <<weekday of the 1st, number of days>>
monthrange(y, mo) == <<WeekdayOf(Date(y, mo, 1)), DaysInMonth(y, mo)>>

\* datetime's _ord2ymd: the year of an ordinal
YearOf(n) ==
    LET n0   == n - 1
        n400 == n0 \div 146097
        r400 == n0 % 146097
        n100 == r400 \div 36524
        r100 == r400 % 36524
        n4   == r100 \div 1461
        r4   == r100 % 1461
        n1   == r4 \div 365
        y    == n400 * 400 + n100 * 100 + n4 * 4 + n1 + 1
    IN  IF n1 = 4 \/ n100 = 4 THEN y - 1 ELSE y

RECURSIVE MonthFrom(_, _, _)
MonthFrom(y, rest, mo) ==
    IF rest <= DaysInMonth(y, mo) \/ mo = 12 THEN mo
    ELSE MonthFrom(y, rest - DaysInMonth(y, mo), mo + 1)

MonthOf(n) == MonthFrom(YearOf(n), n - DaysBeforeYear(YearOf(n)), 1)

DayOf(n) == n - Date(YearOf(n), MonthOf(n), 1) + 1

\* dt.strftime("%Y-%m-%d"): the three printed fields
strftime(n) == <<YearOf(n), MonthOf(n), DayOf(n)>>

\* calendar.monthcalendar(y, mo): the weeks of the month, Monday first, 0 for
\* the days of a week that lie outside the month
monthcalendar(y, mo) ==
    LET w0 == monthrange(y, mo)[1]
        nd == monthrange(y, mo)[2]
        nweeks == (w0 + nd + 6) \div 7
    IN  [i \in 1..nweeks |->
            [j \in 1..7 |->
                LET d == (i - 1) * 7 + j - w0
                IN  IF d >= 1 /\ d <= nd THEN d ELSE 0]]

\* [week[wd] for week in c if week[wd] != 0]
WeekColumn(c, wd) ==
    LET col == [i \in 1..Len(c) |-> c[i][wd + 1]]
        NonZero(d) == d # 0
    IN  SelectSeq(col, NonZero)

(***************************************************************************)
(* Date rules.                                                             *)
(***************************************************************************)
\* the ordinal (1-based) of the Friday taken by get_futures_delivery
FuturesNth(v) == IF v = "jp" THEN 2 ELSE 3

\* the weekday column and the ordinal taken by get_option_delivery
OptionWeekday(v) == IF v = "jp" THEN 4 ELSE 2
OptionNth(v) == IF v = "jp" THEN 3 ELSE 4


\* the index read as 1-based where the list is 0-based: one Friday too late
get_futures_delivery_off_by_one(v, y, mo) ==
    LET fridays == WeekColumn(monthcalendar(y, mo), 4)
    IN  IF Len(fridays) >= FuturesNth(v) + 1
        THEN Date(y, mo, fridays[FuturesNth(v) + 1]) ELSE NoDate

get_futures_delivery(v, y, mo) ==
    LET fridays == WeekColumn(monthcalendar(y, mo), 4)
    IN  IF Len(fridays) >= FuturesNth(v)
        THEN Date(y, mo, fridays[FuturesNth(v)]) ELSE NoDate

\* the option rule asking for one occurrence more than it takes
get_option_delivery_one_more(v, y, mo) ==
    LET days == WeekColumn(monthcalendar(y, mo), OptionWeekday(v))
    IN  IF Len(days) >= OptionNth(v) + 1
        THEN Date(y, mo, days[OptionNth(v)]) ELSE NoDate

\* the option rule taking an occurrence two weeks too early
get_option_delivery_two_early(v, y, mo) ==
    LET days == WeekColumn(monthcalendar(y, mo), OptionWeekday(v))
    IN  IF Len(days) >= OptionNth(v)
        THEN Date(y, mo, days[OptionNth(v) - 2]) ELSE NoDate

get_option_delivery(v, y, mo) ==
    LET days == WeekColumn(monthcalendar(y, mo), OptionWeekday(v))
    IN  IF Len(days) >= OptionNth(v)
        THEN Date(y, mo, days[OptionNth(v)]) ELSE NoDate

\* the month end taken as the first day of the month
get_month_end_first_day(y, mo) == Date(y, mo, 1)

get_month_end(y, mo) == Date(y, mo, monthrange(y, mo)[2])

get_mid_month(y, mo) == Date(y, mo, 15)

(***************************************************************************)
(* Frames.  A row keeps the label (idx) the provider's frame gave it; a    *)
(* filtered frame keeps the labels of the rows it keeps.                   *)
(***************************************************************************)
empty(f) == Len(f) = 0


\* idxmin taking the last row of the minimum distance, not the first
idxmin_abs_last(f, target) ==
    LET dist(i) == Abs(f[i].date - target)
        last == CHOOSE i \in 1..Len(f) :
                    /\ \A j \in 1..Len(f) : dist(i) <= dist(j)
                    /\ \A j \in (i + 1)..Len(f) : dist(j) > dist(i)
    IN  f[last].idx

\* (f['date'] - target).abs().idxmin(): the label of the first row whose
\* distance is the minimum
idxmin_abs(f, target) ==
    LET dist(i) == Abs(f[i].date - target)
        first == CHOOSE i \in 1..Len(f) :
                    /\ \A j \in 1..Len(f) : dist(i) <= dist(j)
                    /\ \A j \in 1..(i - 1) : dist(j) > dist(i)
    IN  f[first].idx

\* f.loc[label]
loc(f, label) == f[CHOOSE i \in 1..Len(f) : f[i].idx = label]

\* the note on the signed offset, as <<kind, days>>
\* the note with "later" and "earlier" exchanged
Note_swapped(diff_days) ==
    IF diff_days > 0 THEN <<"earlier", diff_days>>
    ELSE IF diff_days < 0 THEN <<"later", Abs(diff_days)>>
    ELSE <<"same", 0>>

Note(diff_days) ==
    IF diff_days > 0 THEN <<"later", diff_days>>
    ELSE IF diff_days < 0 THEN <<"earlier", Abs(diff_days)>>
    ELSE <<"same", 0>>

get_nearest_price_info(target, f) ==
    IF f = NoFrame \/ empty(f) THEN <<NoDate, NoPrice, <<"", 0>> >>
    ELSE LET row == loc(f, idxmin_abs(f, target))
         IN  <<row.date, row.close, Note(row.date - target)>>

\* f"{price:.2f}" of a price in hundredths: <<units, hundredths>>
Fmt2(p) == <<p \div 100, p % 100>>

(***************************************************************************)
(* The provider's answers.  A series is date-ascending and unique by date, *)
(* labelled 0, 1, ... (RangeIndex / reset_index).                          *)
(***************************************************************************)
MaxObs == 3

\* closing prices, in hundredths
Prices == {0, 1050}

\* the closes of a backtest series: a second nonzero price makes profits nonzero
BacktestPrices == Prices \cup {1200}

\* the years a query is run for (2024 is a leap year)
Years == {2024}

RECURSIVE Ascending(_)
Ascending(S) ==
    IF S = {} THEN <<>>
    ELSE LET lo == CHOOSE x \in S : \A y \in S : x <= y
         IN  <<lo>> \o Ascending(S \ {lo})

Frame(S, price) ==
    LET ds == Ascending(S)
    IN  [i \in 1..Len(ds) |-> [idx |-> i - 1, date |-> ds[i], close |-> price[ds[i]]]]

DateSets(cands) == {S \in SUBSET cands : S # {} /\ Cardinality(S) <= MaxObs}

\* trading days a backtest's fetch of year y may hold (1 Jan y .. end of Feb y+1)
BacktestDays(y) ==
    {Date(y, 1, 19), Date(y, 2, 13), Date(y, 2, 17),
     Date(y, 3, 1), Date(y, 12, 31), Date(y + 1, 1, 2)}

\* trading days a basic query's fetch of year y may hold (1 Jan y .. 30 Dec y)
QueryDays(y) == {Date(y, 6, 28)}

\* the days datetime.now() may fall on: the year's input is capped at the
\* current year, so now is never before 1 Jan of the queried year
Todays(y) == Date(y, 1, 1) .. Date(y + 1, 1, 1)

(***************************************************************************)
(* Basic query (tab1).                                                     *)
(***************************************************************************)

\* the two anchors of a month listed later one first
dates_to_check_swapped(v, md, y, mo) ==
    IF md = "A"
    THEN << <<"end", get_month_end(y, mo)>>, <<"mid", get_mid_month(y, mo)>> >>
    ELSE LET f_day == get_futures_delivery(v, y, mo)
             o_day == get_option_delivery(v, y, mo)
         IN  (IF o_day # NoDate THEN << <<"option", o_day>> >> ELSE <<>>)
             \o (IF f_day # NoDate THEN << <<"futures", f_day>> >> ELSE <<>>)

dates_to_check(v, md, y, mo) ==
    IF md = "A"
    THEN << <<"mid", get_mid_month(y, mo)>>, <<"end", get_month_end(y, mo)>> >>
    ELSE LET f_day == get_futures_delivery(v, y, mo)
             o_day == get_option_delivery(v, y, mo)
         IN  (IF f_day # NoDate THEN << <<"futures", f_day>> >> ELSE <<>>)
             \o (IF o_day # NoDate THEN << <<"option", o_day>> >> ELSE <<>>)


\* the future check written "dt < today": an anchor dated today is dropped
RECURSIVE CheckDates_strict(_, _, _)
CheckDates_strict(ds, now, f) ==
    IF ds = <<>> THEN <<>>
    ELSE LET type_name == Head(ds)[1]
             dt == Head(ds)[2]
             info == get_nearest_price_info(dt, f)
             row == [month |-> strftime(dt)[2], type |-> type_name,
                     target |-> strftime(dt), actual |-> strftime(info[1]),
                     price |-> Fmt2(info[2]), note |-> info[3]]
         IN  (IF dt < now /\ info[2] # NoPrice THEN <<row>> ELSE <<>>)
             \o CheckDates_strict(Tail(ds), now, f)

\* the body of "for type_name, dt in dates_to_check": the rows it appends
RECURSIVE CheckDates(_, _, _)
CheckDates(ds, now, f) ==
    IF ds = <<>> THEN <<>>
    ELSE LET type_name == Head(ds)[1]
             dt == Head(ds)[2]
             info == get_nearest_price_info(dt, f)
             row == [month |-> strftime(dt)[2], type |-> type_name,
                     target |-> strftime(dt), actual |-> strftime(info[1]),
                     price |-> Fmt2(info[2]), note |-> info[3]]
         IN  (IF dt <= now /\ info[2] # NoPrice THEN <<row>> ELSE <<>>)
             \o CheckDates(Tail(ds), now, f)

Tab1FetchFail ==
    /\ tab = "tab1" /\ pc = "start"
    /\ df' = NoFrame
    /\ outcome' = "error"
    /\ pc' = "done"
    /\ UNCHANGED <<variant, tab, t_year, mode, buy_rule, sell_rule, today, m,
                   target_list, trades, metrics, arg, ret>>

Tab1FetchOk ==
    /\ tab = "tab1" /\ pc = "start"
    /\ \E S \in DateSets(QueryDays(t_year)) : \E price \in [S -> Prices] :
          df' = Frame(S, price)
    /\ target_list' = <<>>
    /\ m' = 1
    /\ pc' = "loop"
    /\ UNCHANGED <<variant, tab, t_year, mode, buy_rule, sell_rule, today,
                   trades, outcome, metrics, arg, ret>>

\* One pass of "for m in range(1, 13)".  The loop reads datetime.now() anew
\* in every pass; it does no I/O, and every read is taken to fall on the same
\* calendar day, today.
Tab1Month ==
    /\ tab = "tab1" /\ pc = "loop"
    /\ target_list' = target_list
                      \o CheckDates(dates_to_check(variant, mode, t_year, m), today, df)
    /\ m' = m + 1
    /\ pc' = IF m = 12 THEN "finish" ELSE "loop"
    /\ UNCHANGED <<variant, tab, t_year, mode, buy_rule, sell_rule, today, df,
                   trades, outcome, metrics, arg, ret>>

Tab1Finish ==
    /\ tab = "tab1" /\ pc = "finish"
    /\ outcome' = IF target_list # <<>> THEN "table" ELSE "info"
    /\ pc' = "done"
    /\ UNCHANGED <<variant, tab, t_year, mode, buy_rule, sell_rule, today, df, m,
                   target_list, trades, metrics, arg, ret>>

(***************************************************************************)
(* Backtest (tab2).                                                        *)
(***************************************************************************)
\* Python's truth value of a price: None and 0.0 are false
Truthy(price) == price # NoPrice /\ price # 0

NextYear(y, mo) == IF mo < 12 THEN y ELSE y + 1
NextMonth(mo) == IF mo < 12 THEN mo + 1 ELSE 1

Trade(mo, b_date, b_price, s_date, s_price) ==
    [month |-> mo,
     buy_date |-> strftime(b_date), buy_price |-> b_price,
     sell_date |-> strftime(s_date), sell_price |-> s_price,
     profit |-> s_price - b_price]


\* app.py's pass without the "s_date > b_date" test
MonthTradeApp_unordered(f, y, mo, br, sr) ==
    LET target_buy == IF br = "futures" THEN get_futures_delivery("app", y, mo)
                      ELSE IF br = "option" THEN get_option_delivery("app", y, mo)
                      ELSE get_month_end(y, mo)
        target_sell == IF sr = "first"
                       THEN Date(NextYear(y, mo), NextMonth(mo), 1)
                       ELSE Date(NextYear(y, mo), NextMonth(mo), 15)
        b == get_nearest_price_info(target_buy, f)
        s == get_nearest_price_info(target_sell, f)
    IN  IF target_buy # NoDate /\ Truthy(b[2]) /\ Truthy(s[2])
        THEN <<Trade(mo, b[1], b[2], s[1], s[2])>>
        ELSE <<>>

\* app.py: one pass of the loop, as the trades it appends (none or one)
MonthTradeApp(f, y, mo, br, sr) ==
    LET target_buy == IF br = "futures" THEN get_futures_delivery("app", y, mo)
                      ELSE IF br = "option" THEN get_option_delivery("app", y, mo)
                      ELSE get_month_end(y, mo)
        target_sell == IF sr = "first"
                       THEN Date(NextYear(y, mo), NextMonth(mo), 1)
                       ELSE Date(NextYear(y, mo), NextMonth(mo), 15)
        b == get_nearest_price_info(target_buy, f)
        s == get_nearest_price_info(target_sell, f)
    IN  IF target_buy # NoDate /\ Truthy(b[2]) /\ Truthy(s[2]) /\ s[1] > b[1]
        THEN <<Trade(mo, b[1], b[2], s[1], s[2])>>
        ELSE <<>>

\* the columns added to the rows taken in reverse order
AddYearMonth_reversed(f) ==
    [i \in 1..Len(f) |->
        [idx |-> f[Len(f) + 1 - i].idx, date |-> f[Len(f) + 1 - i].date,
         close |-> f[Len(f) + 1 - i].close,
         Year |-> YearOf(f[Len(f) + 1 - i].date),
         Month |-> MonthOf(f[Len(f) + 1 - i].date)]]

\* df['Year'] = df[date].dt.year; df['Month'] = df[date].dt.month
AddYearMonth(f) ==
    [i \in 1..Len(f) |->
        [idx |-> f[i].idx, date |-> f[i].date, close |-> f[i].close,
         Year |-> YearOf(f[i].date), Month |-> MonthOf(f[i].date)]]


\* the month's frame filtered on the year alone
MonthFrame_year_only(f, y, mo) ==
    LET InYear(row) == row.Year = y
    IN  SelectSeq(f, InYear)

\* df[(df['Year'] == y) & (df['Month'] == mo)]
MonthFrame(f, y, mo) ==
    LET InMonth(row) == row.Year = y /\ row.Month = mo
    IN  SelectSeq(f, InMonth)

\* engine_cn / engine_jp: the buy of month mo, <<date, price>>
EngineBuy(v, f, y, mo, br) ==
    LET curr_month_df == MonthFrame(f, y, mo)
    IN  IF empty(curr_month_df) THEN <<NoDate, NoPrice>>
        ELSE IF br = "last"
        THEN <<curr_month_df[Len(curr_month_df)].date,
               curr_month_df[Len(curr_month_df)].close>>
        ELSE LET target_buy == IF br = "futures"
                               THEN get_futures_delivery(v, y, mo)
                               ELSE get_option_delivery(v, y, mo)
             IN  IF target_buy = NoDate THEN <<NoDate, NoPrice>>
                 ELSE LET row == loc(curr_month_df,
                                     idxmin_abs(curr_month_df, target_buy))
                      IN  <<row.date, row.close>>

\* the sell under "first" taken from the last row of the next month
EngineSell_last_row(f, y, mo, sr) ==
    LET n_y == NextYear(y, mo)
        n_m == NextMonth(mo)
        next_month_df == MonthFrame(f, n_y, n_m)
    IN  IF empty(next_month_df) THEN <<NoDate, NoPrice>>
        ELSE IF sr = "first"
        THEN <<next_month_df[Len(next_month_df)].date,
               next_month_df[Len(next_month_df)].close>>
        ELSE LET row == loc(next_month_df,
                            idxmin_abs(next_month_df, Date(n_y, n_m, 15)))
             IN  <<row.date, row.close>>

\* the sell resolved against the whole frame when the next month has no rows
EngineSell_fallback(f, y, mo, sr) ==
    LET n_y == NextYear(y, mo)
        n_m == NextMonth(mo)
        next_month_df == IF empty(MonthFrame(f, n_y, n_m)) THEN f
                         ELSE MonthFrame(f, n_y, n_m)
    IN  IF empty(next_month_df) THEN <<NoDate, NoPrice>>
        ELSE IF sr = "first"
        THEN <<next_month_df[1].date, next_month_df[1].close>>
        ELSE LET row == loc(next_month_df,
                            idxmin_abs(next_month_df, Date(n_y, n_m, 15)))
             IN  <<row.date, row.close>>

\* engine_cn / engine_jp: the sell of month mo, <<date, price>>
EngineSell(f, y, mo, sr) ==
    LET n_y == NextYear(y, mo)
        n_m == NextMonth(mo)
        next_month_df == MonthFrame(f, n_y, n_m)
    IN  IF empty(next_month_df) THEN <<NoDate, NoPrice>>
        ELSE IF sr = "first"
        THEN <<next_month_df[1].date, next_month_df[1].close>>
        ELSE LET row == loc(next_month_df,
                            idxmin_abs(next_month_df, Date(n_y, n_m, 15)))
             IN  <<row.date, row.close>>

\* engine_cn / engine_jp: one pass of the loop, as the trades it appends
MonthTradeEngine(v, f, y, mo, br, sr) ==
    LET b == EngineBuy(v, f, y, mo, br)
        s == IF b[1] # NoDate THEN EngineSell(f, y, mo, sr) ELSE <<NoDate, NoPrice>>
    IN  IF b[1] # NoDate /\ s[1] # NoDate /\ Truthy(s[2]) /\ s[1] > b[1]
        THEN <<Trade(mo, b[1], b[2], s[1], s[2])>>
        ELSE <<>>

RECURSIVE SumProfit(_)
SumProfit(ts) == IF ts = <<>> THEN 0 ELSE Head(ts).profit + SumProfit(Tail(ts))

\* a / b * 100 as the fraction <<numerator, denominator>>; a zero denominator
\* is numpy's inf or nan
Pct(a, b) == <<a * 100, b>>

\* p - 100, for a fraction p
Minus100(p) == <<p[1] - 100 * p[2], p[2]>>

\* (a / b - 1) * 100 as a fraction
PctChange(a, b) == <<(a - b) * 100, b>>

NoMetrics == <<>>

\* the aggregates with the initial cost read off the last trade
Metrics_last_buy(v, ts) ==
    LET first_buy == ts[Len(ts)].buy_price
        last_sell == ts[Len(ts)].sell_price
        total_profit == SumProfit(ts)
    IN  [first_buy |-> first_buy,
         total_profit |-> total_profit,
         yield_strategy |-> Pct(total_profit, first_buy),
         yield_hold |-> IF v = "app" THEN <<Pct(last_sell, first_buy)>> ELSE <<>>,
         yield_hold_real |-> IF v = "app" THEN Minus100(Pct(last_sell, first_buy))
                             ELSE PctChange(last_sell, first_buy),
         hold_profit |-> IF v = "app" THEN <<>> ELSE <<last_sell - first_buy>>]

\* the aggregates each file computes from a non-empty ledger and shows: app.py
\* shows the hold ratio (yield_hold) and the hold yield (yield_hold_real);
\* engine_cn / engine_jp show the hold yield and the hold profit, no ratio.
\* A value a file does not compute is <<>>.
Metrics(v, ts) ==
    LET first_buy == ts[1].buy_price
        last_sell == ts[Len(ts)].sell_price
        total_profit == SumProfit(ts)
    IN  [first_buy |-> first_buy,
         total_profit |-> total_profit,
         yield_strategy |-> Pct(total_profit, first_buy),
         yield_hold |-> IF v = "app" THEN <<Pct(last_sell, first_buy)>> ELSE <<>>,
         yield_hold_real |-> IF v = "app" THEN Minus100(Pct(last_sell, first_buy))
                             ELSE PctChange(last_sell, first_buy),
         hold_profit |-> IF v = "app" THEN <<>> ELSE <<last_sell - first_buy>>]

Tab2FetchFail ==
    /\ tab = "tab2" /\ pc = "start"
    /\ df' = NoFrame
    /\ outcome' = IF variant = "app" THEN "error" ELSE "nothing"
    /\ pc' = "done"
    /\ UNCHANGED <<variant, tab, t_year, mode, buy_rule, sell_rule, today, m,
                   target_list, trades, metrics, arg, ret>>

Tab2FetchOk ==
    /\ tab = "tab2" /\ pc = "start"
    /\ \E S \in DateSets(BacktestDays(t_year)) :
          \E price \in [S -> BacktestPrices] : df' = Frame(S, price)
    /\ trades' = <<>>
    /\ m' = 1
    /\ pc' = IF variant = "app" THEN "loop" ELSE "columns"
    /\ UNCHANGED <<variant, tab, t_year, mode, buy_rule, sell_rule, today,
                   target_list, outcome, metrics, arg, ret>>

\* engine_cn / engine_jp: the Year and Month columns written into the
\* fetched frame before the loop
Tab2AddColumns ==
    /\ tab = "tab2" /\ pc = "columns" /\ variant # "app"
    /\ df' = AddYearMonth(df)
    /\ pc' = "loop"
    /\ UNCHANGED <<variant, tab, t_year, mode, buy_rule, sell_rule, today, m,
                   target_list, trades, outcome, metrics, arg, ret>>

Tab2MonthApp ==
    /\ tab = "tab2" /\ pc = "loop" /\ variant = "app"
    /\ trades' = trades \o MonthTradeApp(df, t_year, m, buy_rule, sell_rule)
    /\ m' = m + 1
    /\ pc' = IF m = 12 THEN "finish" ELSE "loop"
    /\ UNCHANGED <<variant, tab, t_year, mode, buy_rule, sell_rule, today, df,
                   target_list, outcome, metrics, arg, ret>>

Tab2MonthEngine ==
    /\ tab = "tab2" /\ pc = "loop" /\ variant # "app"
    /\ trades' = trades
                 \o MonthTradeEngine(variant, df, t_year, m, buy_rule, sell_rule)
    /\ m' = m + 1
    /\ pc' = IF m = 12 THEN "finish" ELSE "loop"
    /\ UNCHANGED <<variant, tab, t_year, mode, buy_rule, sell_rule, today, df,
                   target_list, outcome, metrics, arg, ret>>


\* the report without its else branch: an empty ledger shows nothing
Tab2Finish_no_else ==
    /\ tab = "tab2" /\ pc = "finish"
    /\ IF trades # <<>>
       THEN outcome' = "metrics" /\ metrics' = Metrics(variant, trades)
       ELSE outcome' = outcome /\ metrics' = metrics
    /\ pc' = "done"
    /\ UNCHANGED <<variant, tab, t_year, mode, buy_rule, sell_rule, today, df, m,
                   target_list, trades, arg, ret>>

Tab2Finish ==
    /\ tab = "tab2" /\ pc = "finish"
    /\ IF trades # <<>>
       THEN outcome' = "metrics" /\ metrics' = Metrics(variant, trades)
       ELSE outcome' = "warning" /\ metrics' = metrics
    /\ pc' = "done"
    /\ UNCHANGED <<variant, tab, t_year, mode, buy_rule, sell_rule, today, df, m,
                   target_list, trades, arg, ret>>

(***************************************************************************)
(* Specifications.                                                         *)
(***************************************************************************)
Variants == {"app", "cn", "jp"}

InitQuery ==
    /\ variant \in Variants
    /\ tab = "tab1" /\ pc = "start"
    /\ t_year \in Years
    /\ mode \in {"A", "B"}
    /\ buy_rule = "" /\ sell_rule = ""
    /\ today \in Todays(t_year)
    /\ df = <<>> /\ m = 0
    /\ target_list = <<>> /\ trades = <<>>
    /\ outcome = "nothing" /\ metrics = NoMetrics
    /\ arg = <<>> /\ ret = <<>>

InitBacktest ==
    /\ variant \in Variants
    /\ tab = "tab2" /\ pc = "start"
    /\ t_year \in Years
    /\ mode = ""
    /\ buy_rule \in {"futures", "option", "last"}
    /\ sell_rule \in {"first", "mid"}
    /\ today = Date(t_year + 1, 1, 1)
    /\ df = <<>> /\ m = 0
    /\ target_list = <<>> /\ trades = <<>>
    /\ outcome = "nothing" /\ metrics = NoMetrics
    /\ arg = <<>> /\ ret = <<>>

NextQuery == Tab1FetchFail \/ Tab1FetchOk \/ Tab1Month \/ Tab1Finish

NextBacktest ==
    \/ Tab2FetchFail \/ Tab2FetchOk \/ Tab2AddColumns
    \/ Tab2MonthApp \/ Tab2MonthEngine \/ Tab2Finish

Init == InitQuery \/ InitBacktest

Next == NextQuery \/ NextBacktest

Spec == Init /\ [][Next]_vars

SpecQuery == InitQuery /\ [][NextQuery]_vars

SpecBacktest == InitBacktest /\ [][NextBacktest]_vars

(***************************************************************************)
(* The resolver alone: one call of get_nearest_price_info on a frame and a *)
(* target drawn from a window of days.                                     *)
(***************************************************************************)
ResolveDays == Date(2024, 1, 12) .. Date(2024, 1, 17)

ResolveTargets == Date(2024, 1, 10) .. Date(2024, 1, 19)

InitResolver ==
    /\ variant \in Variants
    /\ tab = "resolve" /\ pc = "start"
    /\ t_year = 2024
    /\ mode = "" /\ buy_rule = "" /\ sell_rule = ""
    /\ today = Date(2025, 1, 1)
    /\ \/ df \in {NoFrame, <<>>}
       \/ \E S \in DateSets(ResolveDays) : \E price \in [S -> Prices] :
             df = Frame(S, price)
    /\ m = 0
    /\ target_list = <<>> /\ trades = <<>>
    /\ outcome = "nothing" /\ metrics = NoMetrics
    /\ arg \in {<<t>> : t \in ResolveTargets}
    /\ ret = <<>>

Resolve ==
    /\ tab = "resolve" /\ pc = "start"
    /\ ret' = get_nearest_price_info(arg[1], df)
    /\ pc' = "done"
    /\ UNCHANGED <<variant, tab, t_year, mode, buy_rule, sell_rule, today, df, m,
                   target_list, trades, outcome, metrics, arg>>

SpecResolver == InitResolver /\ [][Resolve]_vars

(***************************************************************************)
(* The date rules alone: one evaluation for a (year, month).               *)
(***************************************************************************)
CalYears == 1999 .. 2030

InitCalendar ==
    /\ variant \in Variants
    /\ tab = "calendar" /\ pc = "start"
    /\ t_year \in CalYears
    /\ mode = "" /\ buy_rule = "" /\ sell_rule = ""
    /\ today = Date(2031, 1, 1)
    /\ df = <<>> /\ m = 0
    /\ target_list = <<>> /\ trades = <<>>
    /\ outcome = "nothing" /\ metrics = NoMetrics
    /\ arg \in {<<mo>> : mo \in 1..12}
    /\ ret = <<>>

Calendar ==
    /\ tab = "calendar" /\ pc = "start"
    /\ ret' = [futures |-> get_futures_delivery(variant, t_year, arg[1]),
               option |-> get_option_delivery(variant, t_year, arg[1]),
               month_end |-> get_month_end(t_year, arg[1]),
               mid_month |-> get_mid_month(t_year, arg[1])]
    /\ pc' = "done"
    /\ UNCHANGED <<variant, tab, t_year, mode, buy_rule, sell_rule, today, df, m,
                   target_list, trades, outcome, metrics, arg>>

SpecCalendar == InitCalendar /\ [][Calendar]_vars

(***************************************************************************)
(* Properties.                                                             *)
(***************************************************************************)
\* a printed date <<year, month, day>> read back as an ordinal
OrdOf(ymd) == Date(ymd[1], ymd[2], ymd[3])

IsSeries(f) == f # NoFrame /\ f # <<>>

\* C1: on a non-empty date-ascending series, get_nearest_price_info returns a
\* (date, price) pair that is a row of the series, no row is strictly nearer
\* to the target, and of two equidistant rows the earlier date is returned.
C1_NearestObservation ==
    (tab = "resolve" /\ pc = "done" /\ IsSeries(df)) =>
        LET target == arg[1]
        IN  /\ \E i \in 1..Len(df) : df[i].date = ret[1] /\ df[i].close = ret[2]
            /\ \A j \in 1..Len(df) :
                  Abs(df[j].date - target) >= Abs(ret[1] - target)
            /\ \A j \in 1..Len(df) :
                  Abs(df[j].date - target) = Abs(ret[1] - target)
                      => ret[1] <= df[j].date

\* C1's case: two rows lie equally far on either side of the target, nothing
\* is nearer, and the earlier one was returned.
C1_Witness ==
    /\ tab = "resolve" /\ pc = "done" /\ IsSeries(df)
    /\ \E i, j \in 1..Len(df) :
          /\ df[i].date < arg[1] /\ arg[1] < df[j].date
          /\ arg[1] - df[i].date = df[j].date - arg[1]
          /\ ret[1] = df[i].date
          /\ df[i].close # df[j].close

\* C2: after the loop over months 1..12, every recorded trade sells strictly
\* later than it buys, and the ledger's months are strictly increasing.
C2_TradeOrdering ==
    (tab = "tab2" /\ pc \in {"finish", "done"}) =>
        \A i \in 1..Len(trades) :
            /\ OrdOf(trades[i].sell_date) > OrdOf(trades[i].buy_date)
            /\ i < Len(trades) => trades[i].month < trades[i + 1].month

\* C2's case: a finished backtest of app.py with at least two trades.
C2_Witness ==
    tab = "tab2" /\ pc = "done" /\ variant = "app" /\ Len(trades) >= 2

\* a trade's buy is a row of month (y, mo) and its sell a row of the month after
InOwnMonths(t, y, f) ==
    /\ t.buy_date[1] = y /\ t.buy_date[2] = t.month
    /\ t.sell_date[1] = NextYear(y, t.month)
    /\ t.sell_date[2] = NextMonth(t.month)
    /\ \E i \in 1..Len(f) :
          strftime(f[i].date) = t.buy_date /\ f[i].close = t.buy_price
    /\ \E i \in 1..Len(f) :
          strftime(f[i].date) = t.sell_date /\ f[i].close = t.sell_price

\* C3: in engine_cn and engine_jp, the buy of every trade of month m is a row
\* dated in (year, m) and its sell a row dated in the following month, whatever
\* the rules and the series.
C3_EngineTradesInOwnMonths ==
    (tab = "tab2" /\ variant # "app") =>
        \A i \in 1..Len(trades) : InOwnMonths(trades[i], t_year, df)

\* C3's case: an engine backtest that recorded December's trade, sold in
\* January of the next year, on a series that also holds rows of other months.
C3_Witness ==
    /\ tab = "tab2" /\ pc = "done" /\ variant # "app"
    /\ \E i \in 1..Len(trades) : trades[i].month = 12
    /\ Len(df) = MaxObs

\* C4 (as claimed): in app.py, the buy of every trade of month m lies in month m
\* of the backtest year and its sell in the following month.
C4_AppTradesInOwnMonths ==
    (tab = "tab2" /\ variant = "app") =>
        \A i \in 1..Len(trades) : InOwnMonths(trades[i], t_year, df)

\* the anchors of months 1 .. mo - 1, in generation order
RECURSIVE AnchorsBefore(_, _, _, _)
AnchorsBefore(v, md, y, mo) ==
    IF mo <= 1 THEN <<>>
    ELSE AnchorsBefore(v, md, y, mo - 1) \o dates_to_check(v, md, y, mo - 1)

\* C5: no emitted row has a target date after now, and (the series being
\* non-empty) every generated anchor whose target date is not after now is
\* emitted.
C5_FutureExclusion ==
    (tab = "tab1" /\ pc \in {"finish", "done"} /\ IsSeries(df)) =>
        LET gen == AnchorsBefore(variant, mode, t_year, 13)
            emitted == {<<target_list[i].type, target_list[i].target>> :
                            i \in 1..Len(target_list)}
        IN  /\ \A e \in emitted : OrdOf(e[2]) <= today
            /\ \A k \in 1..Len(gen) :
                  gen[k][2] <= today => <<gen[k][1], strftime(gen[k][2])>> \in emitted

\* C5's case: a finished query that emitted an anchor dated today and left out
\* a later one.
C5_Witness ==
    /\ tab = "tab1" /\ pc = "done" /\ IsSeries(df)
    /\ \E i \in 1..Len(target_list) : OrdOf(target_list[i].target) = today
    /\ Len(target_list) < Len(AnchorsBefore(variant, mode, t_year, 13))

\* C6: the emitted rows are a prefix of the anchors in generation order, and
\* every anchor generated after the last emitted one was excluded as future:
\* once an anchor is excluded, none after it is emitted.
C6_EmittedIsPrefix ==
    (tab = "tab1" /\ pc \in {"loop", "finish", "done"} /\ IsSeries(df)) =>
        LET gen == AnchorsBefore(variant, mode, t_year, m)
        IN  /\ Len(target_list) <= Len(gen)
            /\ \A i \in 1..Len(target_list) :
                  /\ target_list[i].target = strftime(gen[i][2])
                  /\ target_list[i].type = gen[i][1]
            /\ \A k \in (Len(target_list) + 1)..Len(gen) : gen[k][2] > today

\* C6's case: a finished expiry-mode query in which the first anchor of a month
\* was emitted, the second excluded, and later months were still processed.
C6_Witness ==
    /\ tab = "tab1" /\ pc = "done" /\ mode = "B" /\ IsSeries(df)
    /\ Len(target_list) % 2 = 1
    /\ Len(target_list) < 20

\* the n-th day of weekday wd in the month, counting the days from the 1st
NthByCounting(y, mo, wd, n) ==
    LET Hits(d) == {e \in 1..d : WeekdayOf(Date(y, mo, e)) = wd}
    IN  CHOOSE d \in 1..DaysInMonth(y, mo) :
            WeekdayOf(Date(y, mo, d)) = wd /\ Cardinality(Hits(d)) = n

Occurrences(y, mo, wd) ==
    Cardinality({d \in 1..DaysInMonth(y, mo) : WeekdayOf(Date(y, mo, d)) = wd})

\* the rules as claimed: <<futures weekday, n, option weekday, n>>
ClaimedRules(v) == IF v = "jp" THEN <<4, 2, 4, 3>> ELSE <<4, 3, 2, 4>>

\* C8: where the weekday occurs at least n times in the month, the rule returns
\* the date of its n-th occurrence as counted day by day from the 1st (3rd
\* Friday and 4th Wednesday in app.py / engine_cn, 2nd and 3rd Friday in
\* engine_jp).
C8_NthWeekday ==
    (tab = "calendar" /\ pc = "done") =>
        LET r == ClaimedRules(variant)
            y == t_year
            mo == arg[1]
        IN  /\ Occurrences(y, mo, r[1]) >= r[2]
                  => ret.futures = Date(y, mo, NthByCounting(y, mo, r[1], r[2]))
            /\ Occurrences(y, mo, r[3]) >= r[4]
                  => ret.option = Date(y, mo, NthByCounting(y, mo, r[3], r[4]))

\* C8's case: a month of six calendar weeks that starts on a Saturday and has
\* only four Fridays, in a leap February's year.
C8_Witness ==
    /\ tab = "calendar" /\ pc = "done"
    /\ Len(monthcalendar(t_year, arg[1])) = 6
    /\ Occurrences(t_year, arg[1], 4) = 4
    /\ isleap(t_year)
    /\ ret.futures # NoDate /\ ret.option # NoDate

\* C9: a backtest that ends with an empty ledger reports insufficient data and
\* computes no aggregate; aggregates are computed only from a ledger with at
\* least one trade.
C9_EmptyLedgerReported ==
    (tab = "tab2" /\ pc = "done" /\ df # NoFrame) =>
        /\ trades = <<>> => (outcome = "warning" /\ metrics = NoMetrics)
        /\ metrics # NoMetrics => trades # <<>>
        /\ trades # <<>> => outcome = "metrics"

\* C9's case: a fetched series, twelve months run, no trade recorded.
C9_Witness ==
    /\ tab = "tab2" /\ pc = "done" /\ IsSeries(df) /\ m = 13
    /\ trades = <<>> /\ outcome = "warning"

\* C10 (as claimed): when the fetch fails, the basic query and the backtest
\* both end in the data-unavailable report, with no anchor resolved and no
\* trade computed.
C10_FetchFailureReported ==
    (pc = "done" /\ df = NoFrame) =>
        outcome = "error" /\ target_list = <<>> /\ trades = <<>>

\* the sign of a number
Sign(x) == IF x > 0 THEN 1 ELSE IF x < 0 THEN -1 ELSE 0

\* two fractions are the same value; over a zero denominator the value is
\* +inf, -inf or nan by the numerator's sign
SameValue(p, q) ==
    IF p[2] = 0 \/ q[2] = 0
    THEN p[2] = q[2] /\ Sign(p[1]) = Sign(q[1])
    ELSE p[1] * q[2] = q[1] * p[2]

\* the sum of the ledger's sells less the sum of its buys
RECURSIVE SumField(_, _)
SumField(ts, sell) ==
    IF ts = <<>> THEN 0
    ELSE (IF sell THEN ts[Len(ts)].sell_price ELSE ts[Len(ts)].buy_price)
         + SumField(SubSeq(ts, 1, Len(ts) - 1), sell)

\* each profit is sell - buy and the aggregates follow the reference formulas
ReferenceFormulas ==
    LET initial_cost == trades[1].buy_price
        last_sell == trades[Len(trades)].sell_price
        total == SumField(trades, TRUE) - SumField(trades, FALSE)
    IN  /\ \A i \in 1..Len(trades) :
              trades[i].profit = trades[i].sell_price - trades[i].buy_price
        /\ metrics.first_buy = initial_cost
        /\ metrics.total_profit = total
        /\ SameValue(metrics.yield_strategy, <<total * 100, initial_cost>>)
        /\ metrics.yield_hold # <<>> =>
              SameValue(metrics.yield_hold[1], <<last_sell * 100, initial_cost>>)
        /\ SameValue(metrics.yield_hold_real,
                     <<last_sell * 100 - 100 * initial_cost, initial_cost>>)
        /\ metrics.hold_profit # <<>> =>
              metrics.hold_profit[1] = last_sell - initial_cost

C12_Note ==
    (tab = "resolve" /\ pc = "done" /\ IsSeries(df)) =>
        LET actual == ret[1]
            target == arg[1]
            note == ret[3]
        IN  /\ note[1] \in {"same", "later", "earlier"}
            /\ note[1] = "same" <=> actual = target
            /\ note[1] = "later" <=> actual > target
            /\ note[1] = "earlier" <=> actual < target
            /\ note[1] = "later" => note[2] > 0 /\ actual = target + note[2]
            /\ note[1] = "earlier" => note[2] > 0 /\ actual = target - note[2]

\* C12's case: the nearest observation lies several days before the target.
C12_Witness ==
    /\ tab = "resolve" /\ pc = "done" /\ IsSeries(df)
    /\ ret[3] = <<"earlier", 3>>
    /\ ret[1] = arg[1] - 3

\* the rows of a series dated in month mo of year y
RowsOf(f, y, mo) ==
    {i \in 1..Len(f) : YearOf(f[i].date) = y /\ MonthOf(f[i].date) = mo}

\* the ledger's trades of month mo
TradesOf(mo) ==
    LET OfMonth(t) == t.month = mo
    IN  SelectSeq(trades, OfMonth)

\* what one pass of the loop appends for month mo, from the series alone
PassOf(mo) ==
    IF variant = "app" THEN MonthTradeApp(df, t_year, mo, buy_rule, sell_rule)
    ELSE MonthTradeEngine(variant, df, t_year, mo, buy_rule, sell_rule)

\* the resolved buy and sell dates of month mo
ResolvedDates(mo) ==
    IF variant = "app"
    THEN LET target_buy == IF buy_rule = "futures"
                           THEN get_futures_delivery("app", t_year, mo)
                           ELSE IF buy_rule = "option"
                           THEN get_option_delivery("app", t_year, mo)
                           ELSE get_month_end(t_year, mo)
             target_sell == Date(NextYear(t_year, mo), NextMonth(mo),
                                 IF sell_rule = "first" THEN 1 ELSE 15)
         IN  <<get_nearest_price_info(target_buy, df)[1],
               get_nearest_price_info(target_sell, df)[1]>>
    ELSE <<EngineBuy(variant, df, t_year, mo, buy_rule)[1],
           EngineSell(df, t_year, mo, sell_rule)[1]>>

\* C13: in the backtest, a month whose observations are empty, or whose
\* following month's observations are empty (engine_cn / engine_jp
\* partitions; the resolver given an empty series returns no date and no
\* price), or whose resolved sell date is not strictly after its resolved buy
\* date, records no trade and raises no error; the loop goes on to month m+1
\* and each month's outcome is what that month alone yields, whatever was
\* skipped before it.
C13_SkippedMonths ==
    /\ \A t \in ResolveTargets :
          get_nearest_price_info(t, <<>>) = <<NoDate, NoPrice, <<"", 0>> >>
    /\ (tab = "tab2" /\ pc \in {"loop", "finish", "done"} /\ IsSeries(df)) =>
          /\ outcome # "error"
          /\ pc = "loop" => m \in 1..12
          /\ pc # "loop" => m = 13
          /\ \A i \in 1..Len(trades) : trades[i].month < m
          /\ pc = "done" =>
                \A mo \in 1..12 :
                   LET resolved == ResolvedDates(mo)
                       recorded == TradesOf(mo)
                   IN  /\ (variant # "app"
                           /\ (\/ RowsOf(df, t_year, mo) = {}
                               \/ RowsOf(df, NextYear(t_year, mo),
                                         NextMonth(mo)) = {}))
                             => recorded = <<>>
                       /\ resolved[2] <= resolved[1] => recorded = <<>>
                       /\ recorded = PassOf(mo)

\* C13's case: an engine run in which month 1 has observations but month 2 has
\* none, month 1 is skipped, and month 12 is traded all the same.
C13_Witness ==
    /\ tab = "tab2" /\ pc = "done" /\ variant = "jp" /\ IsSeries(df)
    /\ RowsOf(df, t_year, 1) # {}
    /\ RowsOf(df, t_year, 2) = {}
    /\ TradesOf(1) = <<>>
    /\ TradesOf(12) # <<>>

\* C14: in the basic query the emitted rows are in strictly ascending
\* target-date order in both modes: mid-month before month-end, the first
\* configured expiry of a month before the second, and every month before
\* the next.
C14_RowsAscending ==
    (tab = "tab1" /\ pc \in {"loop", "finish", "done"} /\ IsSeries(df)) =>
        /\ \A i \in 1..(Len(target_list) - 1) :
              OrdOf(target_list[i].target) < OrdOf(target_list[i + 1].target)
        /\ \A i \in 1..(Len(target_list) - 1) :
              target_list[i].month = target_list[i + 1].month =>
                 /\ target_list[i].type \in {"mid", "futures"}
                 /\ target_list[i + 1].type \in {"end", "option"}

\* C14's case: a finished expiry-mode query that emitted both expiries of
\* every month of the year.
C14_Witness ==
    /\ tab = "tab1" /\ pc = "done" /\ mode = "B" /\ variant = "cn"
    /\ Len(target_list) = 24
    /\ target_list[23].type = "futures" /\ target_list[24].type = "option"
    /\ target_list[23].month = 12 /\ target_list[24].month = 12

\* C15: in engine_cn and engine_jp, under the sell rule "first trading day of
\* next month", the sell of a recorded trade of month m is the observation
\* with the minimum date among the observations dated in the following month.
C15_SellIsFirstOfNextMonth ==
    (tab = "tab2" /\ pc \in {"loop", "finish", "done"} /\ IsSeries(df)
     /\ variant # "app" /\ sell_rule = "first") =>
        \A i \in 1..Len(trades) :
           LET t == trades[i]
               next == RowsOf(df, NextYear(t_year, t.month), NextMonth(t.month))
           IN  \E k \in next :
                  /\ \A j \in next : df[k].date <= df[j].date
                  /\ t.sell_date = strftime(df[k].date)
                  /\ t.sell_price = df[k].close

\* C15's case: the following month holds two observations at different
\* prices, and the recorded trade sold at the earlier one.
C15_Witness ==
    /\ tab = "tab2" /\ pc = "done" /\ variant = "cn" /\ sell_rule = "first"
    /\ IsSeries(df)
    /\ \E i \in 1..Len(trades) :
          /\ trades[i].month = 1
          /\ trades[i].sell_date = <<t_year, 2, 13>>
          /\ \E j, k \in RowsOf(df, t_year, 2) :
                df[j].date < df[k].date /\ df[j].close # df[k].close

\* the (date, closing price) observations of a frame, in its order
Observations(f) ==
    [i \in 1..Len(f) |-> [idx |-> f[i].idx, date |-> f[i].date, close |-> f[i].close]]

\* the fields of a frame's rows
Fields(f) == UNION {DOMAIN f[i] : i \in 1..Len(f)}

C17_LastRowIsNearestToMonthEnd ==
    (tab = "tab2" /\ pc \in {"loop", "finish", "done"} /\ IsSeries(df)
     /\ variant # "app" /\ buy_rule = "last") =>
        \A mo \in 1..(m - 1) :
           LET curr_month_df == MonthFrame(df, t_year, mo)
               b == EngineBuy(variant, df, t_year, mo, buy_rule)
               r == get_nearest_price_info(get_month_end(t_year, mo), curr_month_df)
           IN  curr_month_df # <<>> => b[1] = r[1] /\ b[2] = r[2]

\* C17's case: a month's partition holds two observations at different prices,
\* neither on the month's last day, and the month's trade bought at the later.
C17_Witness ==
    /\ tab = "tab2" /\ pc = "done" /\ variant = "cn" /\ buy_rule = "last"
    /\ IsSeries(df)
    /\ Len(MonthFrame(df, t_year, 2)) = 2
    /\ MonthFrame(df, t_year, 2)[1].close # MonthFrame(df, t_year, 2)[2].close
    /\ \E i \in 1..Len(trades) :
          trades[i].month = 2 /\ trades[i].buy_date = <<t_year, 2, 17>>

\* C18: for every year and month 1..12, get_futures_delivery and
\* get_option_delivery return a date, never the absent value, in all three
\* files, every month holding at least four of each weekday; so the
\* expiry-mode query generates exactly two anchors for the month and the
\* backtest's buy target is never absent.
C18_DeliveryAlwaysDefined ==
    (tab = "calendar" /\ pc = "done") =>
        LET y == t_year
            mo == arg[1]
            anchors == dates_to_check(variant, "B", y, mo)
        IN  /\ \A wd \in 0..6 : Occurrences(y, mo, wd) >= 4
            /\ ret.futures # NoDate /\ ret.option # NoDate
            /\ YearOf(ret.futures) = y /\ MonthOf(ret.futures) = mo
            /\ YearOf(ret.option) = y /\ MonthOf(ret.option) = mo
            /\ Len(anchors) = 2
            /\ anchors[1] = <<"futures", ret.futures>>
            /\ anchors[2] = <<"option", ret.option>>

\* C18's case: a February of 28 days, which holds each weekday exactly four
\* times, under the rule that asks for a 4th occurrence.
C18_Witness ==
    /\ tab = "calendar" /\ pc = "done" /\ variant = "cn"
    /\ arg[1] = 2 /\ DaysInMonth(t_year, 2) = 28
    /\ \A wd \in 0..6 : Occurrences(t_year, 2, wd) = 4
    /\ DayOf(ret.option) >= 22

\* C19: in all three backtests every recorded trade has a nonzero buy price,
\* so whenever the aggregates are computed their divisor, the first trade's
\* buy price, is nonzero, even for a series that contains closing prices of 0.
C19_BuyPriceNonzero ==
    (tab = "tab2" /\ pc \in {"loop", "finish", "done"} /\ IsSeries(df)) =>
        /\ \A i \in 1..Len(trades) : trades[i].buy_price # 0
        /\ metrics # NoMetrics =>
              /\ metrics.first_buy # 0
              /\ metrics.yield_strategy[2] # 0
              /\ metrics.yield_hold_real[2] # 0

====
